---- MODULE Spec2Model ----
(***************************************************************************)
(* Model of the hierarchical geocoder of src/geocoder/geocoder.cpp:        *)
(* Geocoder::ProcessQuery builds a Context, runs the recursive layered     *)
(* search Geocoder::Go and drains the beam with Context::FillResults.      *)
(* The recursion of Go is an explicit stack of frames; every frame keeps   *)
(* the locals of one call and its position in the body.  Token positions   *)
(* are 0-based as in the code; sequences are 1-based, so position id is    *)
(* element id + 1.  Scores are kept in tenths (GetWeight returns 0.1 for   *)
(* Building) and a normalised certainty is the reduced fraction raw / by.  *)
(* Spec and FairSpec are one call of ProcessQuery, SeqSpec is several      *)
(* calls one after another, ConcSpec is two calls at the same time.        *)
(***************************************************************************)
EXTENDS Integers, Sequences, FiniteSets, TLC

VARIABLES
  hierarchy,            \* m_hierarchy: sequence of entries, DocId = index
  query,                \* the raw query: sequence of raw words
  pc,                   \* position in ProcessQuery
  tokens,               \* Context::m_tokens
  tokenTypes,           \* Context::m_tokenTypes
  numUsedTokens,        \* Context::m_numUsedTokens
  layers,               \* Context::m_layers
  beam,                 \* Context::m_beam (entries, best first)
  houseNumberPositions, \* Context::m_houseNumberPositionsInQuery
  stack,                \* call stack of Go frames, top last
  emitted,              \* beam entries FillResults emitted, in order
  results,              \* the vector<Result> returned by ProcessQuery
  plan,                 \* the calls of ProcessQuery the caller still makes
  runs,                 \* the calls of ProcessQuery that returned, in order
  other                 \* the Context of a second call running concurrently

vars == <<hierarchy, query, pc, tokens, tokenTypes, numUsedTokens, layers,
          beam, houseNumberPositions, stack, emitted, results, plan, runs,
          other>>

----------------------------------------------------------------------------
(* geocoder::Type, coarse to fine, Count being the sentinel.               *)
Country == 0
Region == 1
Subregion == 2
Locality == 3
Suburb == 4
Sublocality == 5
Street == 6
Building == 7
Count == 8

Types == Country..Count

kMaxResults == 100

(* GetWeight with the Locality case returning the Subregion weight. *)
GetWeightLocalityAsSubregion(t) ==
  CASE t = Country -> 100
    [] t = Region -> 50
    [] t = Subregion -> 40
    [] t = Locality -> 40
    [] t = Suburb -> 30
    [] t = Sublocality -> 20
    [] t = Street -> 10
    [] t = Building -> 1
    [] t = Count -> 0

(* GetWeight with a penalty for the tokens left unused. *)
GetWeightPenalisesCount(t) ==
  CASE t = Country -> 100
    [] t = Region -> 50
    [] t = Subregion -> 40
    [] t = Locality -> 30
    [] t = Suburb -> 30
    [] t = Sublocality -> 20
    [] t = Street -> 10
    [] t = Building -> 1
    [] t = Count -> -1

(* GetWeight, in tenths. *)
GetWeight(t) ==
  CASE t = Country -> 100
    [] t = Region -> 50
    [] t = Subregion -> 40
    [] t = Locality -> 30
    [] t = Suburb -> 30
    [] t = Sublocality -> 20
    [] t = Street -> 10
    [] t = Building -> 1
    [] t = Count -> 0

(* A recursion that stays on its level. *)
NextTypeSame(type) == type

NextType(type) == type + 1

----------------------------------------------------------------------------
(* Bounds and inputs.                                                      *)
MaxLen == 3

Vocabulary == {"france", "paris", "rivoli", "york", "street", "1", "42"}

RawWords == Vocabulary

(* France > Ile-de-France > Paris > rue de Rivoli > building 1. *)
HParis ==
  << [osmId |-> "F", type |-> Country, name |-> <<"france">>, ancestors |-> <<>>],
     [osmId |-> "R", type |-> Region, name |-> <<"idf">>, ancestors |-> <<"F">>],
     [osmId |-> "P", type |-> Locality, name |-> <<"paris">>,
      ancestors |-> <<"F", "R">>],
     [osmId |-> "S", type |-> Street, name |-> <<"rivoli">>,
      ancestors |-> <<"F", "R", "P">>],
     [osmId |-> "B1", type |-> Building, name |-> <<"1">>,
      ancestors |-> <<"F", "R", "P", "S">>] >>

(* One name shared by a region, a subregion, two localities and a street;  *)
(* the second locality lies in no subregion.  A locality outside the       *)
(* region has a number in its name.                                        *)
HYork ==
  << [osmId |-> "YR", type |-> Region, name |-> <<"york">>, ancestors |-> <<>>],
     [osmId |-> "YC", type |-> Subregion, name |-> <<"york">>,
      ancestors |-> <<"YR">>],
     [osmId |-> "YL", type |-> Locality, name |-> <<"york">>,
      ancestors |-> <<"YR", "YC">>],
     [osmId |-> "YM", type |-> Locality, name |-> <<"york">>,
      ancestors |-> <<"YR">>],
     [osmId |-> "YS", type |-> Street, name |-> <<"york", "street">>,
      ancestors |-> <<"YR", "YC", "YL">>],
     [osmId |-> "Y1", type |-> Building, name |-> <<"1">>,
      ancestors |-> <<"YR", "YC", "YL", "YS">>],
     [osmId |-> "Y42", type |-> Building, name |-> <<"42">>,
      ancestors |-> <<"YR", "YC", "YL", "YS">>],
     [osmId |-> "N", type |-> Locality, name |-> <<"rivoli", "paris", "42">>,
      ancestors |-> <<>>] >>

Hierarchies == {HParis, HYork}

SeedQueries ==
  { <<"1", "rivoli", "paris", "york">>,
    <<"1", "rivoli", "street", "paris">>,
    <<"1", "york", "street", "york">>,
    <<"42", "york", "street", "york">>,
    <<"rivoli", "paris", "france", "42">>,
    <<"Paris", "", "france">>,
    <<"">>,
    <<"", "">> }

Queries == UNION {[1..n -> RawWords] : n \in 0..MaxLen} \cup SeedQueries

----------------------------------------------------------------------------
(* Text helpers.                                                           *)
Normalize(w) == IF w = "Paris" THEN "paris" ELSE w

NormalizeAndTokenizeAsUtf8(q) ==
  LET norm == [n \in 1..Len(q) |-> Normalize(q[n])]
  IN SelectSeq(norm, LAMBDA w : w # "")

IsStreetSynonym(tok) == tok \in {"street"}

RECURSIVE JoinStrings(_, _)
JoinStrings(toks, delim) ==
  IF toks = <<>> THEN ""
  ELSE IF Len(toks) = 1 THEN toks[1]
  ELSE toks[1] \o delim \o JoinStrings(Tail(toks), delim)

MakeHouseNumber(toks) == JoinStrings(toks, " ")

LooksLikeHouseNumber(s) == s \in {"1", "42"}

HouseNumbersMatch(ref, q) == ref = q

----------------------------------------------------------------------------
(* Hierarchy and Index.                                                    *)
IsParentTo(a, b) == \E n \in 1..Len(b.ancestors) : b.ancestors[n] = a.osmId

DocIds(h) == [d \in 1..Len(h) |-> d]

Range(s) == {s[n] : n \in 1..Len(s)}

ForEachDocId(h, subquery) ==
  SelectSeq(DocIds(h), LAMBDA d : Range(subquery) \subseteq Range(h[d].name))

ForEachRelatedBuilding(h, docId) ==
  SelectSeq(DocIds(h), LAMBDA b : /\ h[docId].type = Street
                                  /\ h[b].type = Building
                                  /\ IsParentTo(h[docId], h[b]))

GetMainName(e) == JoinStrings(e.name, " ")

----------------------------------------------------------------------------
(* Geocoder::Context.                                                      *)
GetNumTokens == Len(tokens)

GetToken(id) == tokens[id + 1]

GetTokenType(id) == tokenTypes[id + 1]

IsTokenUsed(id) == tokenTypes[id + 1] # Count

AllTokensUsed == numUsedTokens = Len(tokens)

(* A MarkToken that leaves m_tokenTypes as it was. *)
MarkTokenTypesUnchanged(types, id, type) == types

(* MarkToken: the new m_tokenTypes and the new m_numUsedTokens. *)
MarkTokenTypes(tt, id, type) == [tt EXCEPT ![id + 1] = type]

(* MarkToken without the decrement of line 127-128. *)
MarkTokenNumUsedNoDecrement(tt, n, id, type) ==
  IF tt[id + 1] = Count /\ type # Count THEN n + 1 ELSE n

MarkTokenNumUsed(tt, n, id, type) ==
  LET wasUsed == tt[id + 1] # Count
      nowUsed == type # Count
  IN IF wasUsed /\ ~nowUsed THEN n - 1
     ELSE IF ~wasUsed /\ nowUsed THEN n + 1
     ELSE n

BeamKey(osmId, type, tokenIds, allTypes) ==
  [osmId |-> osmId, type |-> type, tokenIds |-> tokenIds, allTypes |-> allTypes]

(* A beam that puts a new entry before the entries of the same score. *)
BeamAddTiesFirst(b, capacity, key, value) ==
  LET e == [key |-> key, value |-> value]
      pos == Cardinality({n \in 1..Len(b) : b[n].value > value})
      ins == SubSeq(b, 1, pos) \o <<e>> \o SubSeq(b, pos + 1, Len(b))
  IN IF Len(b) < capacity THEN ins
     ELSE IF capacity > 0 /\ value > b[Len(b)].value THEN SubSeq(ins, 1, capacity)
     ELSE b

(* base::Beam::Add: entries are kept best first, a new entry goes after    *)
(* the entries that score at least as much, a full beam takes only a       *)
(* score above its minimum and then evicts the minimum.                    *)
BeamAdd(b, capacity, key, value) ==
  LET e == [key |-> key, value |-> value]
      pos == Cardinality({n \in 1..Len(b) : b[n].value >= value})
      ins == SubSeq(b, 1, pos) \o <<e>> \o SubSeq(b, pos + 1, Len(b))
  IN IF Len(b) < capacity THEN ins
     ELSE IF capacity > 0 /\ value > b[Len(b)].value THEN SubSeq(ins, 1, capacity)
     ELSE b

(* A beam built one entry too large. *)
BeamCapacityOffByOne == kMaxResults + 1

(* The capacity Context::Context gives m_beam. *)
BeamCapacity == kMaxResults

AddResult(b, osmId, certainty, type, tokenIds, allTypes) ==
  BeamAdd(b, BeamCapacity, BeamKey(osmId, type, tokenIds, allTypes), certainty)

MarkHouseNumberPositionsInQuery(hnp, tokenIds) == hnp \cup Range(tokenIds)

IsBuildingWithAddress(beamKey) ==
  IF beamKey.type # Building THEN FALSE
  ELSE LET ts == Range(beamKey.allTypes)
           gotLocality == ts \cap {Region, Subregion, Locality} # {}
           gotStreet == Street \in ts
           gotBuilding == Building \in ts
       IN gotLocality /\ gotStreet /\ gotBuilding

(* The test of HasLocalityOrRegion widened to streets. *)
HasLocalityOrRegionOrStreet(beamKey) ==
  \E n \in 1..Len(beamKey.allTypes) :
     beamKey.allTypes[n] \in {Region, Subregion, Locality, Street}

HasLocalityOrRegion(beamKey) ==
  \E n \in 1..Len(beamKey.allTypes) :
     beamKey.allTypes[n] \in {Region, Subregion, Locality}

(* std::includes over two ascending ranges. *)
RECURSIVE Includes(_, _)
Includes(have, need) ==
  IF need = <<>> THEN TRUE
  ELSE IF have = <<>> THEN FALSE
  ELSE IF need[1] < have[1] THEN FALSE
  ELSE IF have[1] < need[1] THEN Includes(Tail(have), need)
  ELSE Includes(Tail(have), Tail(need))

(* The elements of a set<size_t>, ascending. *)
RECURSIVE SetToSortedSeq(_)
SetToSortedSeq(s) ==
  IF s = {} THEN <<>>
  ELSE LET m == CHOOSE x \in s : \A y \in s : x <= y
       IN <<m>> \o SetToSortedSeq(s \ {m})

ContainsTokenIds(beamKey, needTokenIds) ==
  Includes(beamKey.tokenIds, SetToSortedSeq(needTokenIds))

IsGoodForPotentialHouseNumberAt(beamKey, tokenIds, numTokens) ==
  IF Len(beamKey.tokenIds) = numTokens THEN TRUE
  ELSE IF IsBuildingWithAddress(beamKey) THEN TRUE
  ELSE IF HasLocalityOrRegion(beamKey) /\ ContainsTokenIds(beamKey, tokenIds) THEN TRUE
  ELSE FALSE

(* The loop of FillResults without the seen set. *)
RECURSIVE FillResultsLoopNoSeen(_, _, _, _, _)
FillResultsLoopNoSeen(entries, n, seen, hnp, numTokens) ==
  IF n > Len(entries) THEN <<>>
  ELSE LET e == entries[n]
       IN IF hnp # {} /\ ~IsGoodForPotentialHouseNumberAt(e.key, hnp, numTokens)
          THEN FillResultsLoopNoSeen(entries, n + 1, seen, hnp, numTokens)
          ELSE <<e>> \o FillResultsLoopNoSeen(entries, n + 1, seen, hnp, numTokens)

(* The loop of FillResults with the house number test ahead of the seen    *)
(* set: an object whose entry is dropped is not yet seen.                  *)
RECURSIVE FillResultsLoopFilterFirst(_, _, _, _, _)
FillResultsLoopFilterFirst(entries, n, seen, hnp, numTokens) ==
  IF n > Len(entries) THEN <<>>
  ELSE LET e == entries[n]
       IN IF hnp # {} /\ ~IsGoodForPotentialHouseNumberAt(e.key, hnp, numTokens)
          THEN FillResultsLoopFilterFirst(entries, n + 1, seen, hnp, numTokens)
          ELSE IF e.key.osmId \in seen
          THEN FillResultsLoopFilterFirst(entries, n + 1, seen, hnp, numTokens)
          ELSE <<e>> \o FillResultsLoopFilterFirst(entries, n + 1,
                                                  seen \cup {e.key.osmId},
                                                  hnp, numTokens)

(* FillResults, lines 152-163: the beam entries that are emitted. *)
RECURSIVE FillResultsLoop(_, _, _, _, _)
FillResultsLoop(entries, n, seen, hnp, numTokens) ==
  IF n > Len(entries) THEN <<>>
  ELSE LET e == entries[n]
           hasPotentialHouseNumber == hnp # {}
       IN IF e.key.osmId \in seen
          THEN FillResultsLoop(entries, n + 1, seen, hnp, numTokens)
          ELSE IF hasPotentialHouseNumber
                  /\ ~IsGoodForPotentialHouseNumberAt(e.key, hnp, numTokens)
          THEN FillResultsLoop(entries, n + 1, seen \cup {e.key.osmId}, hnp, numTokens)
          ELSE <<e>> \o FillResultsLoop(entries, n + 1, seen \cup {e.key.osmId},
                                        hnp, numTokens)

RECURSIVE GCD(_, _)
GCD(a, b) == IF b = 0 THEN a ELSE GCD(b, a % b)

(* x / by on two positive scores, as a reduced fraction. *)
Divide(x, by) ==
  LET g == GCD(x, by) IN [num |-> x \div g, den |-> by \div g]

(* The divisor bound by reference to results.front(): it turns 1.0 after   *)
(* the first division, the other scores stay raw.                          *)
NormalizeCertaintiesByReference(em) ==
  IF em = <<>> THEN <<>>
  ELSE [n \in 1..Len(em) |->
          [osmId |-> em[n].key.osmId,
           certainty |-> IF n = 1 THEN Divide(em[n].value, em[1].value)
                         ELSE Divide(em[n].value, 10)]]

(* FillResults, lines 165-174: every certainty divided by the first one. *)
NormalizeCertainties(em) ==
  IF em = <<>> THEN <<>>
  ELSE LET by == em[1].value
       IN [n \in 1..Len(em) |->
             [osmId |-> em[n].key.osmId, certainty |-> Divide(em[n].value, by)]]

FillResults(b, hnp, numTokens) ==
  NormalizeCertainties(FillResultsLoop(b, 1, {}, hnp, numTokens))

----------------------------------------------------------------------------
(* A parent looked for in every layer of the stack, not in the top one. *)
HasParentInAnyLayer(h, ls, e) ==
  \E l \in 1..Len(ls) :
    \E n \in 1..Len(ls[l].entries) : IsParentTo(h[ls[l].entries[n]], e)

(* Layers.                                                                 *)
HasParent(h, ls, e) ==
  LET layer == ls[Len(ls)]
  IN \E n \in 1..Len(layer.entries) : IsParentTo(h[layer.entries[n]], e)

FillRegularLayer(h, ls, type, subquery) ==
  SelectSeq(ForEachDocId(h, subquery),
            LAMBDA d : /\ h[d].type = type
                       /\ (ls = <<>> \/ HasParent(h, ls, h[d])))

(* The related buildings of the entries n.. of a layer, whatever their     *)
(* house numbers: the test of line 380 is left out.                        *)
RECURSIVE RelatedBuildingsUnmatched(_, _, _, _)
RelatedBuildingsUnmatched(h, entries, n, subqueryHN) ==
  IF n > Len(entries) THEN <<>>
  ELSE ForEachRelatedBuilding(h, entries[n])
       \o RelatedBuildingsUnmatched(h, entries, n + 1, subqueryHN)

(* The buildings related to the entries of one layer whose house number    *)
(* matches.                                                                *)
RECURSIVE MatchingBuildings(_, _, _, _)
MatchingBuildings(h, entries, n, subqueryHN) ==
  IF n > Len(entries) THEN <<>>
  ELSE SelectSeq(ForEachRelatedBuilding(h, entries[n]),
                 LAMBDA b : HouseNumbersMatch(GetMainName(h[b]), subqueryHN))
       \o MatchingBuildings(h, entries, n + 1, subqueryHN)

(* FillBuildingsLayer, the for_each from the top layer (n = Len) down. *)
RECURSIVE BuildingsOfLayers(_, _, _, _)
BuildingsOfLayers(h, ls, n, subqueryHN) ==
  IF n = 0 THEN <<>>
  ELSE IF ls[n].type # Street /\ ls[n].type # Locality
  THEN BuildingsOfLayers(h, ls, n - 1, subqueryHN)
  ELSE MatchingBuildings(h, ls[n].entries, 1, subqueryHN)
       \o BuildingsOfLayers(h, ls, n - 1, subqueryHN)

(* FillBuildingsLayer: the entries appended to curLayer. *)
FillBuildingsLayer(h, ls, subquery) ==
  IF ls = <<>> THEN <<>>
  ELSE IF ~LooksLikeHouseNumber(MakeHouseNumber(subquery)) THEN <<>>
  ELSE BuildingsOfLayers(h, ls, Len(ls), MakeHouseNumber(subquery))

(* FillBuildingsLayer without the call of line 371. *)
FillBuildingsLayerMarksNothing(hnp, ls, subquery, subqueryTokenIds) == hnp

(* A FillBuildingsLayer that marks the house number positions only when    *)
(* some related building matches the house number.                         *)
FillBuildingsLayerPositionsOnMatch(hnp, ls, subquery, subqueryTokenIds) ==
  IF FillBuildingsLayer(hierarchy, ls, subquery) = <<>> THEN hnp
  ELSE MarkHouseNumberPositionsInQuery(hnp, subqueryTokenIds)

(* FillBuildingsLayer: its effect on m_houseNumberPositionsInQuery. *)
FillBuildingsLayerPositions(hnp, ls, subquery, subqueryTokenIds) ==
  IF ls = <<>> THEN hnp
  ELSE IF ~LooksLikeHouseNumber(MakeHouseNumber(subquery)) THEN hnp
  ELSE IF \E n \in 1..Len(ls) : ls[n].type = Street \/ ls[n].type = Locality
  THEN MarkHouseNumberPositionsInQuery(hnp, subqueryTokenIds)
  ELSE hnp

----------------------------------------------------------------------------
(* The call stack of Geocoder::Go.                                         *)
(* A frame: the argument type, the position pc in the body, the locals     *)
(* i, j, subquery, subqueryTokenIds, curLayer, mark = [m_l, m_r),          *)
(* streetSynonymMark (empty or one position), certainty, tokenIds,         *)
(* allTypes, the running index k of the loop at pc, and the token types,   *)
(* used count and layers the call was entered with.                        *)
NewFrame(type) ==
  [type |-> type, pc |-> "enter", i |-> 0, j |-> 0,
   subquery |-> <<>>, subqueryTokenIds |-> <<>>,
   curLayer |-> [type |-> type, entries |-> <<>>],
   m_l |-> 0, m_r |-> 0, streetSynonymMark |-> <<>>,
   certainty |-> 0, tokenIds |-> <<>>, allTypes |-> <<>>, k |-> 0,
   entryTokenTypes |-> tokenTypes, entryNumUsedTokens |-> numUsedTokens,
   entryLayers |-> layers]

Top == stack[Len(stack)]

SetTop(f) == [stack EXCEPT ![Len(stack)] = f]

InGo(p) == pc = "go" /\ stack # <<>> /\ Top.pc = p

(* ProcessQuery has been called and no Context exists yet. *)
Called ==
  /\ pc = "ctor"
  /\ tokens = <<>>
  /\ tokenTypes = <<>>
  /\ numUsedTokens = 0
  /\ layers = <<>>
  /\ beam = <<>>
  /\ houseNumberPositions = {}
  /\ stack = <<>>
  /\ emitted = <<>>
  /\ results = <<>>

(* One call of ProcessQuery. *)
Init ==
  /\ hierarchy \in Hierarchies
  /\ query \in Queries
  /\ Called
  /\ plan = <<>>
  /\ runs = <<>>
  /\ other = <<>>

(* ProcessQuery, lines 267-268: Context ctx(query); Go(ctx, Type::Country) *)
(* The beam of another Context left in place of the new, empty m_beam. *)
BeamOfEarlierContext == beam

(* Context::Context, line 91: m_beam(kMaxResults), a beam with no entry. *)
NewBeam == <<>>

ContextCtor ==
  /\ pc = "ctor"
  /\ tokens' = NormalizeAndTokenizeAsUtf8(query)
  /\ tokenTypes' = [n \in 1..Len(tokens') |-> Count]
  /\ numUsedTokens' = 0
  /\ layers' = <<>>
  /\ beam' = NewBeam
  /\ houseNumberPositions' = {}
  /\ pc' = "call"
  /\ UNCHANGED <<hierarchy, plan, runs, other, query, stack, emitted,
                 results>>

CallGo ==
  /\ pc = "call"
  /\ stack' = <<NewFrame(Country)>>
  /\ pc' = "go"
  /\ UNCHANGED <<hierarchy, plan, runs, other, query, tokens, tokenTypes,
                 numUsedTokens, layers, beam, houseNumberPositions, emitted,
                 results>>

(* The early returns of Go without the tests of lines 278-282. *)
ReturnsAtOnceOnlyAtCount(f) == f.type = Count

(* The early returns of Go without the test of line 284: a call for Count  *)
(* goes on into the loops.                                                 *)
ReturnsAtOnceWhateverType(f) == GetNumTokens = 0 \/ AllTokensUsed

(* Go, lines 278-285: the three early returns. *)
ReturnsAtOnce(f) == GetNumTokens = 0 \/ AllTokensUsed \/ f.type = Count

GoEarlyReturn ==
  /\ InGo("enter")
  /\ ReturnsAtOnce(Top)
  /\ stack' = SetTop([Top EXCEPT !.pc = "ret"])
  /\ UNCHANGED <<hierarchy, plan, runs, other, query, pc, tokens, tokenTypes,
                 numUsedTokens, layers, beam, houseNumberPositions, emitted,
                 results>>

GoBegin ==
  /\ InGo("enter")
  /\ ~ReturnsAtOnce(Top)
  /\ stack' = SetTop([Top EXCEPT !.pc = "inner", !.i = 0, !.j = 0,
                                 !.subquery = <<>>, !.subqueryTokenIds = <<>>])
  /\ UNCHANGED <<hierarchy, plan, runs, other, query, pc, tokens, tokenTypes,
                 numUsedTokens, layers, beam, houseNumberPositions, emitted,
                 results>>

(* An inner loop that does not break at a used token (line 295 left out). *)
InnerLoopStopsAtEndOnly(f) == ~(f.j < GetNumTokens)

(* Go, lines 293-296: the inner loop ends, or breaks at a used token.      *)
InnerLoopStops(f) == IF f.j < GetNumTokens THEN IsTokenUsed(f.j) ELSE TRUE

(* Lines 289-293: the outer loop goes on with the next start i + 1. *)
GoNextStart ==
  /\ InGo("inner")
  /\ InnerLoopStops(Top)
  /\ Top.i + 1 < GetNumTokens
  /\ stack' = SetTop([Top EXCEPT !.i = Top.i + 1, !.j = Top.i + 1,
                                 !.subquery = <<>>, !.subqueryTokenIds = <<>>])
  /\ UNCHANGED <<hierarchy, plan, runs, other, query, pc, tokens, tokenTypes,
                 numUsedTokens, layers, beam, houseNumberPositions, emitted,
                 results>>

(* A Go that ends after its loops, without the call of line 350. *)
GoNoSkipLevel ==
  /\ InGo("inner")
  /\ InnerLoopStops(Top)
  /\ ~(Top.i + 1 < GetNumTokens)
  /\ stack' = SetTop([Top EXCEPT !.pc = "ret", !.i = Top.i + 1])
  /\ UNCHANGED <<hierarchy, plan, runs, other, query, pc, tokens, tokenTypes,
                 numUsedTokens, layers, beam, houseNumberPositions, emitted,
                 results>>

(* Line 350: after the last start, the call that skips this level. *)
GoSkipLevel ==
  /\ InGo("inner")
  /\ InnerLoopStops(Top)
  /\ ~(Top.i + 1 < GetNumTokens)
  /\ stack' = Append(SetTop([Top EXCEPT !.pc = "ret", !.i = Top.i + 1]),
                     NewFrame(NextType(Top.type)))
  /\ UNCHANGED <<hierarchy, plan, runs, other, query, pc, tokens, tokenTypes,
                 numUsedTokens, layers, beam, houseNumberPositions, emitted,
                 results>>

(* Go, lines 298-312: the subquery grows by token j and curLayer is filled. *)
Subquery(f) == Append(f.subquery, GetToken(f.j))

SubqueryTokenIds(f) == Append(f.subqueryTokenIds, f.j)

(* The layer filled without the Building branch of lines 305-308. *)
CurLayerEntriesRegularOnly(f) ==
  FillRegularLayer(hierarchy, layers, f.type, Subquery(f))

CurLayerEntries(f) ==
  IF f.type = Building
  THEN FillBuildingsLayer(hierarchy, layers, Subquery(f))
  ELSE FillRegularLayer(hierarchy, layers, f.type, Subquery(f))

HouseNumberPositionsAfterFill(f) ==
  IF f.type = Building
  THEN FillBuildingsLayerPositions(houseNumberPositions, layers, Subquery(f),
                                   SubqueryTokenIds(f))
  ELSE houseNumberPositions

(* Lines 314-315: an empty layer, continue with the next j. *)
GoInnerEmpty ==
  /\ InGo("inner")
  /\ ~InnerLoopStops(Top)
  /\ CurLayerEntries(Top) = <<>>
  /\ houseNumberPositions' = HouseNumberPositionsAfterFill(Top)
  /\ stack' = SetTop([Top EXCEPT !.subquery = Subquery(Top),
                                 !.subqueryTokenIds = SubqueryTokenIds(Top),
                                 !.curLayer = [type |-> Top.type, entries |-> <<>>],
                                 !.j = Top.j + 1])
  /\ UNCHANGED <<hierarchy, plan, runs, other, query, pc, tokens, tokenTypes,
                 numUsedTokens, layers, beam, emitted, results>>

(* Lines 314-317: a non-empty layer; ScopedMarkTokens mark(ctx, type, i, j + 1) *)
(* is about to run its constructor loop.                                   *)
GoInnerFound ==
  /\ InGo("inner")
  /\ ~InnerLoopStops(Top)
  /\ CurLayerEntries(Top) # <<>>
  /\ houseNumberPositions' = HouseNumberPositionsAfterFill(Top)
  /\ stack' = SetTop([Top EXCEPT !.subquery = Subquery(Top),
                                 !.subqueryTokenIds = SubqueryTokenIds(Top),
                                 !.curLayer = [type |-> Top.type,
                                               entries |-> CurLayerEntries(Top)],
                                 !.m_l = Top.i, !.m_r = Top.j + 1,
                                 !.k = Top.i, !.pc = "mark"])
  /\ UNCHANGED <<hierarchy, plan, runs, other, query, pc, tokens, tokenTypes,
                 numUsedTokens, layers, beam, emitted, results>>

(* ScopedMarkTokens::ScopedMarkTokens, lines 59-60: one MarkToken; after   *)
(* the last one the locals of lines 318-322 are set up.                    *)
GoMarkToken ==
  /\ InGo("mark")
  /\ Top.k < Top.m_r
  /\ tokenTypes' = MarkTokenTypes(tokenTypes, Top.k, Top.type)
  /\ numUsedTokens' = MarkTokenNumUsed(tokenTypes, numUsedTokens, Top.k, Top.type)
  /\ stack' = SetTop(IF Top.k + 1 < Top.m_r
                     THEN [Top EXCEPT !.k = Top.k + 1]
                     ELSE [Top EXCEPT !.k = 0, !.pc = "scan",
                                      !.streetSynonymMark = <<>>,
                                      !.certainty = 0, !.tokenIds = <<>>,
                                      !.allTypes = <<>>])
  /\ UNCHANGED <<hierarchy, plan, runs, other, query, pc, tokens, layers,
                 beam, houseNumberPositions, emitted, results>>

(* A scan that emplaces a mark at every unassigned street synonym: the     *)
(* test !streetSynonymMark of line 328 is left out.                        *)
MarksEveryStreetSynonym(f) ==
  /\ f.type = Street
  /\ GetTokenType(f.k) = Count
  /\ IsStreetSynonym(GetToken(f.k))

(* A street synonym test that does not ask for t == Count (line 327). *)
MarksStreetSynonymOfAnyType(f) ==
  /\ f.type = Street
  /\ f.streetSynonymMark = <<>>
  /\ IsStreetSynonym(GetToken(f.k))

(* Go, lines 323-338: one turn of the loop over tokId = k.  t is read      *)
(* before the street synonym mark is emplaced.                             *)
MarksStreetSynonym(f) ==
  /\ f.type = Street
  /\ GetTokenType(f.k) = Count
  /\ f.streetSynonymMark = <<>>
  /\ IsStreetSynonym(GetToken(f.k))

(* A scan that reads only the tokens of the scope just marked. *)
ScannedTypeOfOwnScope(f) ==
  IF f.m_l <= f.k /\ f.k < f.m_r THEN GetTokenType(f.k) ELSE Count

(* Line 325: auto const t = ctx.GetTokenType(tokId), for every token. *)
ScannedType(f) == GetTokenType(f.k)

(* A scan that lists in allTypes only the tokens of the frame's own type.  *)
GoScanTokenOwnTypeOnly ==
  /\ InGo("scan")
  /\ Top.k < GetNumTokens
  /\ LET t == ScannedType(Top)
         syn == MarksStreetSynonym(Top)
         f1 == [Top EXCEPT !.streetSynonymMark = IF syn THEN <<Top.k>> ELSE @,
                           !.certainty = @ + GetWeight(t),
                           !.tokenIds = IF t # Count THEN Append(@, Top.k) ELSE @,
                           !.allTypes = IF t = Top.type THEN Append(@, t) ELSE @,
                           !.k = Top.k + 1]
     IN /\ tokenTypes' = IF syn THEN MarkTokenTypes(tokenTypes, Top.k, Street)
                         ELSE tokenTypes
        /\ numUsedTokens' = IF syn
                            THEN MarkTokenNumUsed(tokenTypes, numUsedTokens, Top.k, Street)
                            ELSE numUsedTokens
        /\ stack' = SetTop(IF Top.k + 1 < GetNumTokens THEN f1
                           ELSE [f1 EXCEPT !.k = 1, !.pc = "add"])
  /\ UNCHANGED <<hierarchy, plan, runs, other, query, pc, tokens, layers,
                 beam, houseNumberPositions, emitted, results>>

GoScanToken ==
  /\ InGo("scan")
  /\ Top.k < GetNumTokens
  /\ LET t == ScannedType(Top)
         syn == MarksStreetSynonym(Top)
         f1 == [Top EXCEPT !.streetSynonymMark = IF syn THEN <<Top.k>> ELSE @,
                           !.certainty = @ + GetWeight(t),
                           !.tokenIds = IF t # Count THEN Append(@, Top.k) ELSE @,
                           !.allTypes = IF t # Count THEN Append(@, t) ELSE @,
                           !.k = Top.k + 1]
     IN /\ tokenTypes' = IF syn THEN MarkTokenTypes(tokenTypes, Top.k, Street)
                         ELSE tokenTypes
        /\ numUsedTokens' = IF syn
                            THEN MarkTokenNumUsed(tokenTypes, numUsedTokens, Top.k, Street)
                            ELSE numUsedTokens
        /\ stack' = SetTop(IF Top.k + 1 < GetNumTokens THEN f1
                           ELSE [f1 EXCEPT !.k = 1, !.pc = "add"])
  /\ UNCHANGED <<hierarchy, plan, runs, other, query, pc, tokens, layers,
                 beam, houseNumberPositions, emitted, results>>

(* Go, lines 340-341: AddResult for entry k of curLayer. *)
GoAddResult ==
  /\ InGo("add")
  /\ Top.k <= Len(Top.curLayer.entries)
  /\ beam' = AddResult(beam, hierarchy[Top.curLayer.entries[Top.k]].osmId,
                       Top.certainty, Top.type, Top.tokenIds, Top.allTypes)
  /\ stack' = SetTop(IF Top.k < Len(Top.curLayer.entries)
                     THEN [Top EXCEPT !.k = Top.k + 1]
                     ELSE [Top EXCEPT !.pc = "push"])
  /\ UNCHANGED <<hierarchy, plan, runs, other, query, pc, tokens, tokenTypes,
                 numUsedTokens, layers, houseNumberPositions, emitted,
                 results>>

(* A recursion of line 346 that stays on the level of the pushed layer. *)
GoRecurseSameLevel ==
  /\ InGo("push")
  /\ layers' = Append(layers, Top.curLayer)
  /\ stack' = Append(SetTop([Top EXCEPT !.pc = "pop"]),
                     [NewFrame(Top.type) EXCEPT !.entryLayers = layers'])
  /\ UNCHANGED <<hierarchy, plan, runs, other, query, pc, tokens, tokenTypes,
                 numUsedTokens, beam, houseNumberPositions, emitted, results>>

(* Go, lines 343-346: push curLayer and recurse with the next type. *)
GoRecurse ==
  /\ InGo("push")
  /\ layers' = Append(layers, Top.curLayer)
  /\ stack' = Append(SetTop([Top EXCEPT !.pc = "pop"]),
                     [NewFrame(NextType(Top.type)) EXCEPT !.entryLayers = layers'])
  /\ UNCHANGED <<hierarchy, plan, runs, other, query, pc, tokens, tokenTypes,
                 numUsedTokens, beam, houseNumberPositions, emitted, results>>

(* A scope guard that pops nothing. *)
PopBackForgotten(ls) == ls

(* vector::pop_back of the scope guard of line 344. *)
PopBack(ls) == SubSeq(ls, 1, Len(ls) - 1)

(* A street synonym mark that is never destroyed. *)
SynonymMarkLeaked(f) == FALSE

(* boost::optional<ScopedMarkTokens> streetSynonymMark holds a mark. *)
SynonymMarkEngaged(f) == f.streetSynonymMark # <<>>

(* End of the loop body: the scope guard of line 344 pops the layer, then  *)
(* the destructors of streetSynonymMark and mark run.                      *)
GoPopLayer ==
  /\ InGo("pop")
  /\ layers' = PopBack(layers)
  /\ stack' = SetTop(IF SynonymMarkEngaged(Top)
                     THEN [Top EXCEPT !.pc = "unsyn"]
                     ELSE [Top EXCEPT !.pc = "unmark", !.k = Top.m_l])
  /\ UNCHANGED <<hierarchy, plan, runs, other, query, pc, tokens, tokenTypes,
                 numUsedTokens, beam, houseNumberPositions, emitted, results>>

(* ~ScopedMarkTokens of streetSynonymMark, covering one position. *)
GoUnmarkSynonym ==
  /\ InGo("unsyn")
  /\ LET id == Top.streetSynonymMark[1]
     IN /\ tokenTypes' = MarkTokenTypes(tokenTypes, id, Count)
        /\ numUsedTokens' = MarkTokenNumUsed(tokenTypes, numUsedTokens, id, Count)
  /\ stack' = SetTop([Top EXCEPT !.pc = "unmark", !.k = Top.m_l,
                                 !.streetSynonymMark = <<>>])
  /\ UNCHANGED <<hierarchy, plan, runs, other, query, pc, tokens, layers,
                 beam, houseNumberPositions, emitted, results>>

(* ~ScopedMarkTokens of mark, lines 65-66: one MarkToken(k, Count); after  *)
(* the last one the inner loop goes on with j + 1.                         *)
GoUnmarkToken ==
  /\ InGo("unmark")
  /\ Top.k < Top.m_r
  /\ tokenTypes' = MarkTokenTypes(tokenTypes, Top.k, Count)
  /\ numUsedTokens' = MarkTokenNumUsed(tokenTypes, numUsedTokens, Top.k, Count)
  /\ stack' = SetTop(IF Top.k + 1 < Top.m_r
                     THEN [Top EXCEPT !.k = Top.k + 1]
                     ELSE [Top EXCEPT !.pc = "inner", !.j = Top.j + 1, !.k = 0])
  /\ UNCHANGED <<hierarchy, plan, runs, other, query, pc, tokens, layers,
                 beam, houseNumberPositions, emitted, results>>

(* Return from Go; the outermost return hands over to FillResults. *)
GoReturn ==
  /\ InGo("ret")
  /\ stack' = SubSeq(stack, 1, Len(stack) - 1)
  /\ pc' = IF Len(stack) = 1 THEN "fill" ELSE pc
  /\ UNCHANGED <<hierarchy, plan, runs, other, query, tokens, tokenTypes,
                 numUsedTokens, layers, beam, houseNumberPositions, emitted,
                 results>>

(* ProcessQuery, line 269: ctx.FillResults(results). *)
DoFillResults ==
  /\ pc = "fill"
  /\ emitted' = FillResultsLoop(beam, 1, {}, houseNumberPositions, GetNumTokens)
  /\ results' = FillResults(beam, houseNumberPositions, GetNumTokens)
  /\ pc' = "done"
  /\ UNCHANGED <<hierarchy, plan, runs, other, query, tokens, tokenTypes,
                 numUsedTokens, layers, beam, houseNumberPositions, stack>>

Next ==
  \/ ContextCtor
  \/ CallGo
  \/ GoEarlyReturn
  \/ GoBegin
  \/ GoNextStart
  \/ GoInnerEmpty
  \/ GoInnerFound
  \/ GoMarkToken
  \/ GoScanToken
  \/ GoAddResult
  \/ GoRecurse
  \/ GoPopLayer
  \/ GoUnmarkSynonym
  \/ GoUnmarkToken
  \/ GoSkipLevel
  \/ GoReturn
  \/ DoFillResults

Spec == Init /\ [][Next]_vars

----------------------------------------------------------------------------
(* Properties.                                                             *)
One == [num |-> 1, den |-> 1]

CertaintyLeq(a, b) == a.num * b.den <= b.num * a.den

ResultIds == {results[n].osmId : n \in 1..Len(results)}

(* C1: the list ProcessQuery returns is ordered by non-increasing          *)
(* certainty, every certainty is in (0, 1], each is the raw score of its   *)
(* beam entry divided by the first emitted raw score, and the first        *)
(* certainty of a non-empty list is exactly 1.0.                           *)
C1_CertaintiesNormalised ==
  pc = "done" =>
    /\ Len(results) = Len(emitted)
    /\ \A n \in 1..Len(results) :
         /\ results[n].certainty.num > 0
         /\ results[n].certainty.num <= results[n].certainty.den
         /\ results[n].certainty.num * emitted[1].value
              = emitted[n].value * results[n].certainty.den
    /\ \A n \in 1..(Len(results) - 1) :
         CertaintyLeq(results[n + 1].certainty, results[n].certainty)
    /\ (results # <<>> => results[1].certainty = One)

(* A query answered with at least two results, the second one below 1.0.   *)
C1_Witness ==
  /\ pc = "done"
  /\ Len(results) >= 2
  /\ results[2].certainty.num < results[2].certainty.den

(* C2: no object id occurs twice in the list ProcessQuery returns,         *)
(* however many beam entries share it.                                     *)
C2_NoDuplicateIds ==
  pc = "done" =>
    \A m, n \in 1..Len(results) : results[m].osmId = results[n].osmId => m = n

(* Two beam entries of one object, with different token ids, and the       *)
(* object in the output.                                                   *)
C2_Witness ==
  /\ pc = "done"
  /\ \E m, n \in 1..Len(beam) :
       /\ m # n
       /\ beam[m].key.osmId = beam[n].key.osmId
       /\ beam[m].key.tokenIds # beam[n].key.tokenIds
       /\ beam[m].key.osmId \in ResultIds

(* C3: the beam never holds more than K = 100 entries, and the list        *)
(* ProcessQuery returns has at most 100 results.                           *)
C3_BeamBounded ==
  /\ Len(beam) <= kMaxResults
  /\ Len(results) <= kMaxResults

(* A full beam about to be offered a candidate that beats its minimum.     *)
C3_Witness ==
  /\ InGo("add")
  /\ Len(beam) = kMaxResults
  /\ Top.certainty > beam[Len(beam)].value

RECURSIVE SumOfWeights(_, _)
SumOfWeights(tt, n) ==
  IF n = 0 THEN 0 ELSE GetWeight(tt[n]) + SumOfWeights(tt, n - 1)

UsedPositions(tt) == SelectSeq([n \in 1..Len(tt) |-> n - 1], LAMBDA id : tt[id + 1] # Count)

(* C4: at every AddResult call of Go the certainty passed is the sum of    *)
(* GetWeight(tokenTypes[k]) over all positions k as tokenTypes stands at   *)
(* that moment, the street synonym just marked included, and tokenIds and  *)
(* allTypes list exactly the positions whose type is not Count.            *)
C4_CertaintyIsSumOfWeights ==
  InGo("add") =>
    /\ Top.certainty = SumOfWeights(tokenTypes, Len(tokenTypes))
    /\ Top.tokenIds = UsedPositions(tokenTypes)
    /\ Top.allTypes = [n \in 1..Len(Top.tokenIds) |-> tokenTypes[Top.tokenIds[n] + 1]]

(* C5: scope marking is balanced: when a call Go(ctx, type) returns,       *)
(* tokenTypes and numUsedTokens are what they were when it was entered.    *)
C5_MarksBalanced ==
  InGo("ret") =>
    /\ tokenTypes = Top.entryTokenTypes
    /\ numUsedTokens = Top.entryNumUsedTokens

(* A call entered with tokens already assigned returns after having made   *)
(* a range mark of its own and a street synonym mark.                      *)
C5_Witness ==
  /\ InGo("ret")
  /\ Top.type = Street
  /\ Top.m_r > Top.m_l
  /\ Top.entryNumUsedTokens > 0
  /\ \E n \in 1..Len(beam) :
       /\ beam[n].key.type = Building
       /\ Cardinality({m \in 1..Len(beam[n].key.allTypes) :
                         beam[n].key.allTypes[m] = Street}) >= 2

(* C6: numUsedTokens is the number of positions whose type is not Count,   *)
(* and lies between 0 and the number of tokens, in every state.            *)
C6_UsedCount ==
  /\ numUsedTokens = Cardinality({n \in 1..Len(tokenTypes) : tokenTypes[n] # Count})
  /\ 0 <= numUsedTokens
  /\ numUsedTokens <= Len(tokens)

(* In the middle of a destructor: one position already restored, others    *)
(* still assigned.                                                         *)
C6_Witness ==
  /\ InGo("unmark")
  /\ Top.k > Top.m_l
  /\ numUsedTokens >= 2

(* C7: the layer stack is empty when Go(ctx, Country) is called and when   *)
(* it has returned, and every call of Go returns with the layer stack it   *)
(* was entered with.                                                       *)
C7_LayersBalanced ==
  /\ (pc \in {"ctor", "call", "fill", "done"} => layers = <<>>)
  /\ (pc = "go" /\ Len(stack) = 1 /\ Top.pc \in {"enter", "ret"} => layers = <<>>)
  /\ (InGo("ret") => layers = Top.entryLayers)
  /\ (InGo("enter") => layers = Top.entryLayers)

(* A call entered on a non-empty stack returns after a push of its own.    *)
C7_Witness ==
  /\ InGo("ret")
  /\ Top.m_r > Top.m_l
  /\ Top.entryLayers # <<>>

CoversEveryToken(key) == \A id \in 0..(Len(tokens) - 1) : id \in Range(key.tokenIds)

BuildingWithAddress(key) ==
  /\ key.type = Building
  /\ Range(key.allTypes) \cap {Region, Subregion, Locality} # {}
  /\ Street \in Range(key.allTypes)
  /\ Building \in Range(key.allTypes)

LocalityWithHouseNumber(key) ==
  /\ Range(key.allTypes) \cap {Region, Subregion, Locality} # {}
  /\ houseNumberPositions \subseteq Range(key.tokenIds)

FirstOfItsId(n) == \A m \in 1..(n - 1) : beam[m].key.osmId # beam[n].key.osmId

(* C8: with a non-empty houseNumberPositions every emitted result comes    *)
(* from a beam key that covers every token, or is a Building whose         *)
(* allTypes hold a Region, Subregion or Locality, a Street and a Building, *)
(* or holds a Region, Subregion or Locality and covers every house number  *)
(* position; with an empty one the filter drops no beam entry.             *)
C8_HouseNumberFilter ==
  pc = "done" =>
    /\ \A n \in 1..Len(results) : results[n].osmId = emitted[n].key.osmId
    /\ \A n \in 1..Len(emitted) : \E m \in 1..Len(beam) : beam[m] = emitted[n]
    /\ houseNumberPositions # {} =>
         \A n \in 1..Len(emitted) :
            \/ CoversEveryToken(emitted[n].key)
            \/ BuildingWithAddress(emitted[n].key)
            \/ LocalityWithHouseNumber(emitted[n].key)
    /\ houseNumberPositions = {} =>
         \A m \in 1..Len(beam) : FirstOfItsId(m) => \E n \in 1..Len(emitted) : emitted[n] = beam[m]

(* A house number was seen, one object is emitted from a key that leaves   *)
(* a token unused, another object is dropped by the filter.                *)
C8_Witness ==
  /\ pc = "done"
  /\ houseNumberPositions # {}
  /\ \E n \in 1..Len(emitted) : ~CoversEveryToken(emitted[n].key)
  /\ \E m \in 1..Len(beam) : beam[m].key.osmId \notin ResultIds

BuildingIds == {hierarchy[d].osmId : d \in {x \in 1..Len(hierarchy) : hierarchy[x].type = Building}}

(* C9: no Building candidate is recorded while the layer stack is empty or *)
(* holds no Street or Locality layer; for the query 42 paris on the seed   *)
(* hierarchy no Building is in the beam or in the output.                  *)
C9_NoBareHouseNumber ==
  /\ (InGo("add") /\ Top.type = Building =>
        \E n \in 1..Len(layers) : layers[n].type \in {Street, Locality})
  /\ (hierarchy = HParis /\ tokens = <<"42", "paris">> =>
        /\ \A n \in 1..Len(beam) :
             beam[n].key.type # Building /\ beam[n].key.osmId \notin BuildingIds
        /\ ResultIds \cap BuildingIds = {})

(* 42 paris answered: the locality was matched, 42 was tried as a house    *)
(* number under it.                                                        *)
C9_Witness ==
  /\ pc = "done"
  /\ hierarchy = HParis
  /\ tokens = <<"42", "paris">>
  /\ houseNumberPositions = {0}
  /\ beam # <<>>

(* Queries made of a building's house number, the name of its street and   *)
(* the name of the street's locality.                                      *)
IsAddressOf(b, st, p) ==
  /\ hierarchy[p].type = Locality
  /\ hierarchy[st].type = Street
  /\ hierarchy[b].type = Building
  /\ IsParentTo(hierarchy[p], hierarchy[st])
  /\ IsParentTo(hierarchy[st], hierarchy[b])
  /\ tokens = hierarchy[b].name \o hierarchy[st].name \o hierarchy[p].name

(* C10 as stated: for every Locality P, Street S under P and Building B1   *)
(* on S, the query house number, street name, locality name returns B1     *)
(* first with certainty 1.0 from a key whose allTypes hold Locality,       *)
(* Street and Building, and S is not in the output.                        *)
C10_AddressQuery ==
  pc = "done" =>
    \A b, st, p \in 1..Len(hierarchy) :
       IsAddressOf(b, st, p) =>
         /\ results # <<>>
         /\ results[1] = [osmId |-> hierarchy[b].osmId, certainty |-> One]
         /\ {Locality, Street, Building} \subseteq Range(emitted[1].key.allTypes)
         /\ hierarchy[st].osmId \notin ResultIds

(* Every token of the query occurs in the name of exactly one entry.       *)
TokensNameOneEntry ==
  \A k \in 1..Len(tokens) :
     Cardinality({d \in 1..Len(hierarchy) : tokens[k] \in Range(hierarchy[d].name)}) = 1

(* C10, amended: in a hierarchy where every token of the query names       *)
(* exactly one entry, the query house number, street name, locality name   *)
(* returns B1 first with certainty 1.0 from a key whose allTypes hold      *)
(* Locality, Street and Building, and S is not in the output.              *)
C10_AddressQueryOwnNames ==
  pc = "done" /\ TokensNameOneEntry =>
    \A b, st, p \in 1..Len(hierarchy) :
       IsAddressOf(b, st, p) =>
         /\ results # <<>>
         /\ results[1] = [osmId |-> hierarchy[b].osmId, certainty |-> One]
         /\ {Locality, Street, Building} \subseteq Range(emitted[1].key.allTypes)
         /\ hierarchy[st].osmId \notin ResultIds

(* Such a query answered, with the street in the beam and the house        *)
(* number position marked.                                                 *)
C10_Witness ==
  /\ pc = "done"
  /\ TokensNameOneEntry
  /\ houseNumberPositions # {}
  /\ \E b, st, p \in 1..Len(hierarchy) :
       /\ IsAddressOf(b, st, p)
       /\ \E n \in 1..Len(beam) : beam[n].key.osmId = hierarchy[st].osmId

NoTokenInAnyName ==
  \A n \in 1..Len(tokens) :
    \A d \in 1..Len(hierarchy) : tokens[n] \notin Range(hierarchy[d].name)

(* C12: a query of zero tokens (empty or whitespace only) makes            *)
(* Go(ctx, Country) return at once, with no call below it and nothing      *)
(* recorded, and ProcessQuery returns the empty list; a query none of      *)
(* whose tokens occurs in any entry name returns the empty list too.       *)
C12_EmptyAndUnknownQueries ==
  /\ (tokens = <<>> /\ pc \in {"go", "fill", "done"}) =>
       /\ Len(stack) <= 1
       /\ \A n \in 1..Len(stack) : stack[n].pc \in {"enter", "ret"}
       /\ beam = <<>>
       /\ houseNumberPositions = {}
       /\ results = <<>>
  /\ (pc = "done" /\ NoTokenInAnyName) => (beam = <<>> /\ results = <<>>)

(* A query of whitespace only has been answered. *)
C12_Witness ==
  /\ pc = "done"
  /\ query # <<>>
  /\ tokens = <<>>
  /\ results = <<>>

(* The run of ProcessQuery scheduled as the single thread it is: a step    *)
(* that can be taken is taken.                                             *)
FairSpec == Init /\ [][Next]_vars /\ WF_vars(Next)

(* The frames of the recursion go down the type order one level per call,  *)
(* from Country at the bottom of the call stack.                           *)
CallsUseNextType ==
  \A n \in 1..Len(stack) :
    stack[n].type = IF n = 1 THEN Country ELSE NextType(stack[n - 1].type)

(* C13: Go(ctx, Country) terminates: every recursive call is made with     *)
(* NextType(type), so the recursion is never deeper than the 9 values of   *)
(* the type order, the layer stack never holds more than 8 layers, and     *)
(* ProcessQuery reaches its end.                                           *)
C13_GoTerminates ==
  /\ [](CallsUseNextType /\ Len(stack) <= 9 /\ Len(layers) <= 8)
  /\ <>(pc = "done")

(* The recursion stands at its deepest: nine calls, the last for Count. *)
C13_Witness ==
  /\ pc = "go"
  /\ Len(stack) = 9
  /\ Top.type = Count
  /\ layers # <<>>

----------------------------------------------------------------------------
(* Several calls of ProcessQuery on one Geocoder, one after another.       *)

(* What a returned call leaves with its caller. *)
ReturnedCall ==
  [query |-> query, tokens |-> tokens, results |-> results, emitted |-> emitted]

(* The caller calls ProcessQuery again.  The Context of the returned call  *)
(* is gone; the storage keeps what it held until the next constructor.     *)
NextQuery ==
  /\ pc = "done"
  /\ other = <<>>
  /\ plan # <<>>
  /\ \E q \in Head(plan) : query' = q
  /\ plan' = Tail(plan)
  /\ runs' = Append(runs, ReturnedCall)
  /\ pc' = "ctor"
  /\ UNCHANGED <<hierarchy, other, tokens, tokenTypes, numUsedTokens, layers,
                 beam, houseNumberPositions, stack, emitted, results>>

RemoveAt(s, k) == SubSeq(s, 1, k - 1) \o SubSeq(s, k + 1, Len(s))

Removals(q) == {RemoveAt(q, k) : k \in 1..Len(q)}

RerunQueries == { <<"paris", "france">>, <<"rivoli", "1">>, <<"rivoli", "street">> }

(* Either a query and then the same query with one word removed, or a      *)
(* query, a second query and the first query again.                        *)
SeqInit ==
  /\ hierarchy \in Hierarchies
  /\ Called
  /\ runs = <<>>
  /\ other = <<>>
  /\ \/ /\ query \in Queries
        /\ plan = <<Removals(query)>>
     \/ /\ query \in RerunQueries
        /\ \E q \in RerunQueries : plan = <<{q}, {query}>>

SeqNext ==
  \/ Next
  \/ NextQuery

SeqSpec == SeqInit /\ [][SeqNext]_vars

(* C14: ProcessQuery is deterministic: a call on a query returns the       *)
(* result list that every earlier call on the same query and the same      *)
(* hierarchy returned, whatever was asked in between.                      *)
C14_Deterministic ==
  pc = "done" =>
    \A n \in 1..Len(runs) : runs[n].query = query => runs[n].results = results

(* A query was answered, then a different query with a different answer,   *)
(* then the first query again.                                             *)
C14_Witness ==
  /\ pc = "done"
  /\ Len(runs) = 2
  /\ runs[1].query = query
  /\ runs[2].query # query
  /\ runs[2].results # results
  /\ results # <<>>

----------------------------------------------------------------------------
(* Two calls of ProcessQuery on one Geocoder at the same time.  The        *)
(* variables of the Context are those of the call that takes the next      *)
(* step; the Context of the call that waits is kept in other.  The         *)
(* hierarchy, which holds the index, is the one object both calls read.    *)

ThisContext ==
  [query |-> query, pc |-> pc, tokens |-> tokens, tokenTypes |-> tokenTypes,
   numUsedTokens |-> numUsedTokens, layers |-> layers, beam |-> beam,
   houseNumberPositions |-> houseNumberPositions, stack |-> stack,
   emitted |-> emitted, results |-> results]

(* A call of ProcessQuery(q, results) that has not taken a step. *)
NewCall(q) ==
  [query |-> q, pc |-> "ctor", tokens |-> <<>>, tokenTypes |-> <<>>,
   numUsedTokens |-> 0, layers |-> <<>>, beam |-> <<>>,
   houseNumberPositions |-> {}, stack |-> <<>>, emitted |-> <<>>,
   results |-> <<>>]

(* One set of house number positions kept for all calls. *)
PositionsOfAllCalls(ctx) == houseNumberPositions

(* m_houseNumberPositionsInQuery is a member of the Context of the call. *)
PositionsOfCall(ctx) == ctx.houseNumberPositions

(* After each of two queries was answered alone, the caller asks both      *)
(* again from two threads.                                                 *)
StartConcurrent ==
  /\ pc = "done"
  /\ other = <<>>
  /\ plan = <<>>
  /\ Len(runs) = 1
  /\ runs' = Append(runs, ReturnedCall)
  /\ query' = runs[1].query
  /\ pc' = "ctor"
  /\ other' = <<NewCall(query)>>
  /\ UNCHANGED <<hierarchy, plan, tokens, tokenTypes, numUsedTokens, layers,
                 beam, houseNumberPositions, stack, emitted, results>>

(* The scheduler lets the waiting call run. *)
Switch ==
  /\ other # <<>>
  /\ other[1].pc # "done"
  /\ other' = <<ThisContext>>
  /\ query' = other[1].query
  /\ pc' = other[1].pc
  /\ tokens' = other[1].tokens
  /\ tokenTypes' = other[1].tokenTypes
  /\ numUsedTokens' = other[1].numUsedTokens
  /\ layers' = other[1].layers
  /\ beam' = other[1].beam
  /\ houseNumberPositions' = PositionsOfCall(other[1])
  /\ stack' = other[1].stack
  /\ emitted' = other[1].emitted
  /\ results' = other[1].results
  /\ UNCHANGED <<hierarchy, plan, runs>>

ConcInit ==
  /\ hierarchy \in Hierarchies
  /\ Called
  /\ runs = <<>>
  /\ other = <<>>
  /\ query \in RerunQueries
  /\ \E q \in RerunQueries : plan = <<{q}>>

ConcNext ==
  \/ Next
  \/ NextQuery
  \/ StartConcurrent
  \/ Switch

ConcSpec == ConcInit /\ [][ConcNext]_vars

AnsweredAsAlone(q, r) ==
  /\ \E n \in 1..Len(runs) : runs[n].query = q
  /\ \A n \in 1..Len(runs) : runs[n].query = q => runs[n].results = r

(* C15: two calls of ProcessQuery that run at the same time, their steps   *)
(* interleaved in any order, each return the list the same query returned  *)
(* when it ran alone; a step of one call leaves the Context of the other   *)
(* call and the shared hierarchy and index as they were.                   *)
C15_ConcurrentCalls ==
  /\ [](other # <<>> =>
          /\ pc = "done" => AnsweredAsAlone(query, results)
          /\ other[1].pc = "done" =>
               AnsweredAsAlone(other[1].query, other[1].results))
  /\ [][/\ hierarchy' = hierarchy
        /\ (other # <<>> /\ other' # other) => other' = <<ThisContext>>]_vars

(* Both concurrent calls have returned; they asked different queries, one  *)
(* of them marked house number positions, and the answers differ.          *)
C15_Witness ==
  /\ other # <<>>
  /\ pc = "done"
  /\ other[1].pc = "done"
  /\ other[1].query # query
  /\ other[1].results # results
  /\ houseNumberPositions # {}
  /\ other[1].houseNumberPositions = {}
  /\ other[1].results # <<>>

----------------------------------------------------------------------------
(* The candidate the AddResult call of line 341 is about to offer. *)
OfferedEntry ==
  [key |-> BeamKey(hierarchy[Top.curLayer.entries[Top.k]].osmId, Top.type,
                   Top.tokenIds, Top.allTypes),
   value |-> Top.certainty]

(* new is old with e put behind every entry that scores at least as much   *)
(* and before every entry that scores less.                                *)
PlacedBehindItsEquals(old, new, e) ==
  \E p \in 1..(Len(old) + 1) :
    /\ new = SubSeq(old, 1, p - 1) \o <<e>> \o SubSeq(old, p, Len(old))
    /\ \A n \in 1..(p - 1) : old[n].value >= e.value
    /\ \A n \in p..Len(old) : old[n].value < e.value

(* C16: Beam.Add inserts the candidate while fewer than K = 100 entries    *)
(* are retained; with K retained it inserts only a score strictly above    *)
(* the current minimum and evicts one entry of minimum score, a score      *)
(* equal to the minimum is not inserted; the entries stay in               *)
(* non-increasing score order, earlier insertions first among equals.      *)
C16_BeamAdd ==
  /\ [](\A n \in 1..(Len(beam) - 1) : beam[n].value >= beam[n + 1].value)
  /\ [][InGo("add") =>
          IF Len(beam) < kMaxResults
          THEN PlacedBehindItsEquals(beam, beam', OfferedEntry)
          ELSE IF OfferedEntry.value > beam[Len(beam)].value
          THEN \E m \in 1..Len(beam) :
                 /\ beam[m].value = beam[Len(beam)].value
                 /\ PlacedBehindItsEquals(RemoveAt(beam, m), beam', OfferedEntry)
          ELSE beam' = beam]_vars

(* A full beam about to be offered a candidate that scores exactly its     *)
(* minimum, and holding two entries of one score.                          *)
C16_Witness ==
  /\ InGo("add")
  /\ Len(beam) = kMaxResults
  /\ Top.certainty = beam[Len(beam)].value
  /\ \E n \in 1..(Len(beam) - 1) : beam[n].value = beam[n + 1].value

(* C17: when Go records a Building candidate on top of a Street layer, its *)
(* raw certainty is not lower than the raw certainty recorded for the      *)
(* Street candidates of that layer, and adding a Building candidate never  *)
(* lowers the highest raw certainty in the beam.                           *)
C17_BuildingNotBelowStreet ==
  /\ []((/\ InGo("add")
         /\ Top.type = Building
         /\ layers # <<>>
         /\ layers[Len(layers)].type = Street) =>
          \A n \in 1..Len(stack) :
            (stack[n].type = Street /\ stack[n].pc = "pop") =>
               /\ stack[n].curLayer = layers[Len(layers)]
               /\ Top.certainty >= stack[n].certainty)
  /\ [][(InGo("add") /\ Top.type = Building /\ beam # <<>>) =>
          beam'[1].value >= beam[1].value]_vars

(* A Building candidate is about to be recorded on top of a Street layer   *)
(* whose candidates are in the beam.                                       *)
C17_Witness ==
  /\ InGo("add")
  /\ Top.type = Building
  /\ layers # <<>>
  /\ layers[Len(layers)].type = Street
  /\ \E n \in 1..Len(stack) : stack[n].type = Street /\ stack[n].pc = "pop"
  /\ \E m \in 1..Len(beam) : beam[m].key.type = Street

----------------------------------------------------------------------------
(* The call that returned was preceded by one call, on the same query with *)
(* one more token.                                                         *)
AfterRemoval ==
  /\ pc = "done"
  /\ Len(runs) = 1
  /\ tokens \in Removals(runs[1].tokens)

(* The token removed was the first or the last one. *)
AfterEndRemoval ==
  /\ pc = "done"
  /\ Len(runs) = 1
  /\ runs[1].tokens # <<>>
  /\ tokens \in {Tail(runs[1].tokens),
                 SubSeq(runs[1].tokens, 1, Len(runs[1].tokens) - 1)}

NoHouseNumberToken(ts) == \A n \in 1..Len(ts) : ~LooksLikeHouseNumber(ts[n])

(* C18: removing any single token from the query does not increase the     *)
(* number of matched types (the size of allTypes) on the winning key, the  *)
(* beam key behind the first output result.                                *)
C18_RemovalNeverAddsTypes ==
  (AfterRemoval /\ emitted # <<>> /\ runs[1].emitted # <<>>) =>
     Len(emitted[1].key.allTypes) <= Len(runs[1].emitted[1].key.allTypes)

(* C18 as it holds: removing the first or the last token of a query with   *)
(* no token that looks like a house number does not raise the raw score of *)
(* the winning key, and a shortened query that has a result was            *)
(* shortened from a query that has one.                                    *)
C18_EndRemovalNeverRaisesScore ==
  (AfterEndRemoval /\ NoHouseNumberToken(runs[1].tokens) /\ emitted # <<>>) =>
     /\ runs[1].emitted # <<>>
     /\ emitted[1].value <= runs[1].emitted[1].value

(* The last token of a query of three was removed; the token had raised    *)
(* the score of the winning key and is missed by the shorter query.        *)
C18_Witness ==
  /\ AfterEndRemoval
  /\ NoHouseNumberToken(runs[1].tokens)
  /\ Len(tokens) = 2
  /\ tokens = SubSeq(runs[1].tokens, 1, 2)
  /\ emitted # <<>>
  /\ emitted[1].value < runs[1].emitted[1].value

----------------------------------------------------------------------------
(* The entries of type t whose name holds every token of the subquery. *)
EntriesNamed(t, subquery) ==
  {d \in 1..Len(hierarchy) : /\ hierarchy[d].type = t
                             /\ Range(subquery) \subseteq Range(hierarchy[d].name)}

(* Entry d has an entry of the layer among its ancestors. *)
HasAncestorIn(layer, d) ==
  \E e \in Range(layer.entries) :
    hierarchy[e].osmId \in Range(hierarchy[d].ancestors)

(* The call on top of the stack has filled curLayer for its subquery and   *)
(* the layer stack is as it was at the fill.                               *)
RegularLayerFilled ==
  /\ pc = "go"
  /\ stack # <<>>
  /\ Top.type # Building
  /\ Top.pc \in {"inner", "mark", "scan", "add", "push"}
  /\ Top.subquery # <<>>

(* C19: every entry FillRegularLayer puts into a layer on a non-empty      *)
(* stack has the type of the layer and has an entry of the layer on top of *)
(* the stack at the fill among its ancestors; on an empty stack the layer  *)
(* holds every entry of the type whose name holds all subquery tokens.     *)
C19_RegularLayer ==
  /\ RegularLayerFilled =>
       LET es == Range(Top.curLayer.entries)
       IN /\ Top.curLayer.type = Top.type
          /\ es \subseteq EntriesNamed(Top.type, Top.subquery)
          /\ layers # <<>> => \A d \in es : HasAncestorIn(layers[Len(layers)], d)
          /\ layers = <<>> => es = EntriesNamed(Top.type, Top.subquery)
  /\ \A n \in 2..Len(layers) :
       layers[n].type # Building =>
         \A d \in Range(layers[n].entries) :
           /\ hierarchy[d].type = layers[n].type
           /\ HasAncestorIn(layers[n - 1], d)

(* A layer filled on a non-empty stack that left out an entry of the type  *)
(* and the name asked for: the entry is no descendant of the top layer,    *)
(* but of a layer below it.                                                *)
C19_Witness ==
  /\ RegularLayerFilled
  /\ Top.pc = "mark"
  /\ Len(layers) >= 2
  /\ \E d \in EntriesNamed(Top.type, Top.subquery) :
       /\ d \notin Range(Top.curLayer.entries)
       /\ HasAncestorIn(layers[1], d)

----------------------------------------------------------------------------
(* The key is one the house number filter lets through. *)
PassesHouseNumberFilter(key) ==
  \/ houseNumberPositions = {}
  \/ CoversEveryToken(key)
  \/ BuildingWithAddress(key)
  \/ LocalityWithHouseNumber(key)

(* C20: FillResults marks an object as seen before it applies the house    *)
(* number filter: an object is in the output exactly if its first, that is *)
(* highest ranked, beam entry passes the filter, and it is that entry that *)
(* is emitted; an object whose first entry is rejected is absent even if a *)
(* lower ranked entry of it would pass.                                    *)
C20_DedupBeforeFilter ==
  pc = "done" =>
    \A n \in 1..Len(beam) :
      FirstOfItsId(n) =>
        /\ beam[n].key.osmId \in ResultIds <=> PassesHouseNumberFilter(beam[n].key)
        /\ \A m \in 1..Len(emitted) :
             emitted[m].key.osmId = beam[n].key.osmId => emitted[m] = beam[n]

(* An object is absent from the output: its first beam entry is rejected   *)
(* by the filter, an entry of it with a lower score would pass.            *)
C20_Witness ==
  /\ pc = "done"
  /\ \E n, m \in 1..Len(beam) :
       /\ n < m
       /\ FirstOfItsId(n)
       /\ beam[m].key.osmId = beam[n].key.osmId
       /\ beam[m].value < beam[n].value
       /\ ~PassesHouseNumberFilter(beam[n].key)
       /\ PassesHouseNumberFilter(beam[m].key)
       /\ beam[n].key.osmId \notin ResultIds

----------------------------------------------------------------------------
(* Positions lying outside the range [m_l, m_r) of the mark of frame f.    *)
OutsideMark(f) == {p \in 0..(GetNumTokens - 1) : p < f.m_l \/ p >= f.m_r}

(* Positions left unassigned once frame f has marked its range.            *)
UnassignedAfterMark(f) ==
  {p \in OutsideMark(f) : f.entryTokenTypes[p + 1] = Count}

(* The positions frame f has marked Street beyond its own range.           *)
ExtraStreetMarks(f) ==
  {p \in UnassignedAfterMark(f) : tokenTypes[p + 1] = Street}

(* Frame f is between the end of its scan and the end of its loop body.    *)
AfterScan(f) == f.pc \in {"add", "push", "pop"}

SynonymMarkOfFrame(f) ==
  IF f.streetSynonymMark = <<>>
  THEN (* a Street frame without a mark has marked nothing beyond its      *)
       (* range; after its scan this means that no unassigned token was a  *)
       (* street synonym                                                   *)
       f.type = Street =>
         /\ ExtraStreetMarks(f) = {}
         /\ AfterScan(f) =>
              \A p \in UnassignedAfterMark(f) : ~IsStreetSynonym(GetToken(p))
  ELSE LET pos == f.streetSynonymMark[1]
       IN /\ f.type = Street
          /\ f.curLayer.type = Street
          /\ f.curLayer.entries # <<>>
          /\ f.pc \in {"scan", "add", "push", "pop", "unsyn"}
          /\ pos \in UnassignedAfterMark(f)
          /\ IsStreetSynonym(GetToken(pos))
          /\ \A p \in UnassignedAfterMark(f) :
               p < pos => ~IsStreetSynonym(GetToken(p))
          /\ ExtraStreetMarks(f) = {pos}

(* The street synonym marks of all frames are in place, and none is left   *)
(* when a fill is tried.                                                   *)
StreetSynonymMarksInPlace ==
  /\ \A n \in 1..Len(stack) : SynonymMarkOfFrame(stack[n])
  /\ InGo("inner") =>
       /\ Top.streetSynonymMark = <<>>
       /\ tokenTypes = Top.entryTokenTypes

(* C21: a street synonym mark exists only in a Street frame that found a   *)
(* non-empty Street layer; it marks as Street exactly the lowest position  *)
(* that is unassigned after the main range mark and holds a street         *)
(* synonym, there is at most one such mark per loop iteration, and when    *)
(* the next (i, j) expansion is tried the mark is gone and the token       *)
(* types are those the call was entered with.                              *)
C21_StreetSynonymMark == []StreetSynonymMarksInPlace

(* The lower of two unassigned street synonyms is marked, the higher not.  *)
C21_Witness ==
  /\ InGo("add")
  /\ Top.streetSynonymMark # <<>>
  /\ \E q \in UnassignedAfterMark(Top) :
       /\ q > Top.streetSynonymMark[1]
       /\ IsStreetSynonym(GetToken(q))
       /\ GetTokenType(q) = Count

----------------------------------------------------------------------------
(* The step is a call of FillBuildingsLayer on the positions i..j with a   *)
(* subquery that looks like a house number, under a stack that holds a     *)
(* Street or a Locality layer.                                             *)
FillsBuildingsUnderStreetOrLocality ==
  /\ InGo("inner")
  /\ ~InnerLoopStops(Top)
  /\ Top.type = Building
  /\ LooksLikeHouseNumber(MakeHouseNumber(Subquery(Top)))
  /\ \E n \in 1..Len(layers) : layers[n].type \in {Street, Locality}

HouseNumberPositionsStep ==
  /\ houseNumberPositions \subseteq houseNumberPositions'
  /\ FillsBuildingsUnderStreetOrLocality =>
       houseNumberPositions' = houseNumberPositions \cup (Top.i)..(Top.j)

(* C22: during a query houseNumberPositions only grows, and a call of      *)
(* FillBuildingsLayer whose subquery looks like a house number, made while *)
(* the stack holds a Street or Locality layer, adds all positions of the   *)
(* subquery, whether or not a related building matches.                    *)
C22_HouseNumberPositionsGrow == [][HouseNumberPositionsStep]_vars

(* A query answered with house number positions marked and candidates in   *)
(* the beam, none of them a Building, and all of them dropped by the       *)
(* final filter.                                                           *)
C22_Witness ==
  /\ pc = "done"
  /\ houseNumberPositions # {}
  /\ beam # <<>>
  /\ \A n \in 1..Len(beam) : beam[n].key.type # Building
  /\ results = <<>>

----------------------------------------------------------------------------
(* The beam holds a candidate for entry d whose matched types are exactly  *)
(* the set ts.                                                             *)
RecordedWithTypes(d, ts) ==
  \E n \in 1..Len(beam) :
     /\ beam[n].key.osmId = hierarchy[d].osmId
     /\ beam[n].key.type = hierarchy[d].type
     /\ Range(beam[n].key.allTypes) = ts

(* C23: levels can be skipped.  A candidate is recorded only while the     *)
(* stack is empty or its top layer is of some coarser type, not            *)
(* necessarily the next coarser one.  The query that is the name of an     *)
(* entry of any type but Building records that entry on the empty stack,   *)
(* and the query of an entry's name followed by the name of any of its     *)
(* ancestors records the entry directly on the ancestor's layer, whatever  *)
(* levels lie between the two (a Locality directly under a Country).       *)
C23_LevelsAreSkipped ==
  /\ InGo("add") =>
       \/ layers = <<>>
       \/ layers[Len(layers)].type < Top.type
  /\ pc = "done" =>
       \A d \in 1..Len(hierarchy) :
          /\ (hierarchy[d].type # Building /\ tokens = hierarchy[d].name) =>
               RecordedWithTypes(d, {hierarchy[d].type})
          /\ \A a \in 1..Len(hierarchy) :
               ( /\ IsParentTo(hierarchy[a], hierarchy[d])
                 /\ hierarchy[d].type # Building
                 /\ tokens = hierarchy[d].name \o hierarchy[a].name ) =>
                  RecordedWithTypes(d, {hierarchy[a].type, hierarchy[d].type})

(* A Locality is being recorded on a stack that holds a Country layer and  *)
(* nothing else.                                                           *)
C23_Witness ==
  /\ InGo("add")
  /\ Top.type = Locality
  /\ Len(layers) = 1
  /\ layers[1].type = Country

----------------------------------------------------------------------------
(* The positions marked with type t.                                       *)
PositionsOfType(t) == {p \in 0..(GetNumTokens - 1) : GetTokenType(p) = t}

(* The set s of positions is empty or a range lo..hi without a gap.        *)
IsContiguous(s) == \A p, q \in s : \A m \in p..q : m \in s

(* C24: every position carries one type; the positions marked with a type  *)
(* other than Street form one contiguous range (a position p whose type    *)
(* occurs again at p + 2 or later is followed by a position of that type), *)
(* those marked Street one contiguous range plus at most one further       *)
(* position; and every subquery handed to FillRegularLayer or              *)
(* FillBuildingsLayer is made of the consecutive positions i..j, all of    *)
(* them unassigned at that moment.                                         *)
C24_MarkedRanges ==
  /\ Len(tokenTypes) = Len(tokens)
  /\ \A p \in 0..(GetNumTokens - 1) : GetTokenType(p) \in Country..Count
  /\ \A p \in 0..(GetNumTokens - 3) :
       \A q \in (p + 2)..(GetNumTokens - 1) :
          (GetTokenType(p) = GetTokenType(q)
             /\ GetTokenType(p) \notin {Street, Count}) =>
            GetTokenType(p + 1) = GetTokenType(p)
  /\ LET streets == PositionsOfType(Street)
     IN \/ IsContiguous(streets)
        \/ \E x \in streets : IsContiguous(streets \ {x})
  /\ (InGo("inner") /\ ~InnerLoopStops(Top)) =>
       /\ Top.i <= Top.j
       /\ SubqueryTokenIds(Top) = [n \in 1..(Top.j - Top.i + 1) |-> Top.i + n - 1]
       /\ Subquery(Top) = [n \in 1..(Top.j - Top.i + 1) |-> GetToken(Top.i + n - 1)]
       /\ \A p \in (Top.i)..(Top.j) : GetTokenType(p) = Count

(* A subquery of an unassigned position is handed to a fill while the      *)
(* Street positions are a range and a street synonym apart from it.        *)
C24_Witness ==
  /\ InGo("inner")
  /\ ~InnerLoopStops(Top)
  /\ ~IsContiguous(PositionsOfType(Street))

----------------------------------------------------------------------------
(* Building b is a related building of an entry of a Street or Locality    *)
(* layer of the stack ls, and its house number is hn.                      *)
RelatedThroughSomeLayer(b, ls, hn) ==
  /\ hierarchy[b].type = Building
  /\ HouseNumbersMatch(GetMainName(hierarchy[b]), hn)
  /\ \E n \in 1..Len(ls) :
       /\ ls[n].type \in {Street, Locality}
       /\ \E m \in 1..Len(ls[n].entries) :
            b \in Range(ForEachRelatedBuilding(hierarchy, ls[n].entries[m]))

(* Frame f holds a layer it has filled and not yet given up.               *)
HoldsFilledLayer(f) ==
  f.pc \in {"mark", "scan", "add", "push", "pop", "unsyn", "unmark"}

(* C25: every Building candidate in the beam has a Building and a Street   *)
(* or a Locality among its allTypes, and every entry of a Building layer   *)
(* is a related building of some entry of a Street or Locality layer that  *)
(* was on the stack (any such layer, not only the top one) and has the     *)
(* space-joined subquery as its house number.                              *)
C25_BuildingCandidates ==
  /\ \A n \in 1..Len(beam) :
       beam[n].key.type = Building =>
         /\ Building \in Range(beam[n].key.allTypes)
         /\ Range(beam[n].key.allTypes) \cap {Street, Locality} # {}
  /\ \A n \in 1..Len(stack) :
       (stack[n].type = Building /\ HoldsFilledLayer(stack[n])) =>
         \A m \in 1..Len(stack[n].curLayer.entries) :
            RelatedThroughSomeLayer(stack[n].curLayer.entries[m],
                                    stack[n].entryLayers,
                                    MakeHouseNumber(stack[n].subquery))

(* A Building frame has recorded the candidates of its layer.              *)
C25_Witness ==
  /\ InGo("push")
  /\ Top.type = Building
  /\ \E n \in 1..Len(beam) :
       /\ beam[n].key.type = Building
       /\ beam[n].key.osmId = hierarchy[Top.curLayer.entries[1]].osmId

----------------------------------------------------------------------------
(* Every layer of the stack ls is of a type strictly coarser than t.       *)
AllCoarser(ls, t) == \A n \in 1..Len(ls) : ls[n].type < t

(* Frame f is at its entry, in its loops, or recording and pushing the     *)
(* layer it found; its own layer is not on the stack.                      *)
BeforeOwnLayer(f) == f.pc \in {"enter", "inner", "mark", "scan", "add", "push"}

(* C26: the types of the layers on the stack are strictly increasing from  *)
(* bottom to top, so no type occurs twice, and a frame Go(ctx, type) is    *)
(* entered and runs its loops only with all stacked layers of a type       *)
(* strictly coarser than type.                                             *)
C26_LayerTypesIncrease ==
  /\ \A n \in 1..(Len(layers) - 1) : layers[n].type < layers[n + 1].type
  /\ (pc = "go" /\ stack # <<>> /\ BeforeOwnLayer(Top)) =>
       /\ layers = Top.entryLayers
       /\ AllCoarser(layers, Top.type)

(* A call is entered on a stack of three layers that leave levels out.     *)
C26_Witness ==
  /\ InGo("enter")
  /\ Len(layers) = 3
  /\ layers[3].type > layers[1].type + 2

----------------------------------------------------------------------------
(* The types carried by the assigned token positions.                      *)
AssignedTypes ==
  {GetTokenType(p) : p \in 0..(GetNumTokens - 1)} \ {Count}

(* The types of the layers on the stack.                                   *)
LayerTypes == {layers[n].type : n \in 1..Len(layers)}

(* C27: at the entry of every Go call the set of types carried by assigned *)
(* token positions equals the set of types of the layers on the stack:     *)
(* every stacked layer has a token marked with its type, and no token is   *)
(* marked with a type that has no layer on the stack.                      *)
C27_MarksMatchLayers == InGo("enter") => AssignedTypes = LayerTypes

(* A call entered with a street synonym marked, two layers on the stack    *)
(* and a token left to match.                                              *)
C27_Witness ==
  /\ InGo("enter")
  /\ Len(layers) >= 2
  /\ ~AllTokensUsed
  /\ \E n \in 1..Len(stack) : stack[n].streetSynonymMark # <<>>

----------------------------------------------------------------------------
(* The positions that carried a type when frame f was entered still carry  *)
(* that type.                                                              *)
KeepsEarlierMarks(f) ==
  \A p \in 0..(GetNumTokens - 1) :
     f.entryTokenTypes[p + 1] # Count => GetTokenType(p) = f.entryTokenTypes[p + 1]

(* The running frame marks unassigned positions only. *)
MarksOnlyUnassigned ==
  (pc = "go" /\ stack # <<>>) =>
    /\ (Top.pc = "mark" /\ Top.k < Top.m_r) => GetTokenType(Top.k) = Count
    /\ KeepsEarlierMarks(Top)
    /\ Top.streetSynonymMark # <<>> =>
         Top.streetSynonymMark[1] \in UnassignedAfterMark(Top)

(* C28: a scoped mark is applied only to positions whose type is Count at  *)
(* that moment.  The position the constructor of the range mark is about   *)
(* to mark is unassigned, a street synonym mark sits on a position that    *)
(* was unassigned after the range mark, and a position that carried a type *)
(* when the running frame was entered carries that type as long as the     *)
(* frame runs.                                                             *)
C28_MarksOnlyUnassigned == []MarksOnlyUnassigned

(* A Building frame marks its range while the Street frame below it holds  *)
(* a street synonym mark.                                                  *)
C28_Witness ==
  /\ InGo("mark")
  /\ Top.type = Building
  /\ Top.k < Top.m_r
  /\ \E n \in 1..Len(stack) : stack[n].streetSynonymMark # <<>>

----------------------------------------------------------------------------
(* The run-time checks of the search, each as the set of arguments the     *)
(* statement about to run passes to the checked function.                  *)

(* NextType(type): line 346 after the push, line 350 after the loops.      *)
NextTypeArgs ==
  IF InGo("push") THEN {Top.type}
  ELSE IF InGo("inner")
  THEN (IF InnerLoopStops(Top) /\ ~(Top.i + 1 < GetNumTokens)
        THEN {Top.type} ELSE {})
  ELSE {}

(* ScopedMarkTokens(ctx, type, l, r): line 317 with (i, j + 1), as bound   *)
(* to m_l and m_r when the constructor starts, line 334 with (tokId,       *)
(* tokId + 1).                                                             *)
ScopedMarkArgs ==
  IF InGo("mark")
  THEN (IF Top.k = Top.m_l THEN {<<Top.m_l, Top.m_r>>} ELSE {})
  ELSE IF InGo("scan")
  THEN (IF MarksStreetSynonym(Top) THEN {<<Top.k, Top.k + 1>>} ELSE {})
  ELSE {}

(* The index passed to IsTokenUsed and GetToken (lines 295, 298), to       *)
(* MarkToken (lines 60 and 66) and to GetTokenType and GetToken (lines     *)
(* 325, 330).                                                              *)
TokenIndexArgs ==
  IF InGo("inner") THEN (IF Top.j < GetNumTokens THEN {Top.j} ELSE {})
  ELSE IF InGo("mark") \/ InGo("unmark") \/ InGo("scan") THEN {Top.k}
  ELSE IF InGo("unsyn") THEN {Top.streetSynonymMark[1]}
  ELSE {}

(* The layer stack FillRegularLayer hands to HasParent for a document of   *)
(* the type asked for (line 399): none when the stack is empty.            *)
HasParentArgs ==
  IF InGo("inner")
  THEN (IF InnerLoopStops(Top) THEN {}
        ELSE IF Top.type = Building THEN {}
        ELSE IF layers = <<>> THEN {}
        ELSE {layers})
  ELSE {}

(* The condition of every check holds of the arguments about to be passed. *)
ChecksPass ==
  /\ Count \notin NextTypeArgs
  /\ \A a \in ScopedMarkArgs : a[1] <= a[2] /\ a[2] <= GetNumTokens
  /\ \A id \in TokenIndexArgs : id < GetNumTokens
  /\ \A ls \in HasParentArgs : ls # <<>>
  /\ (pc = "go" /\ stack # <<>>) =>
       /\ Top.type \in Country..Count
       /\ HoldsFilledLayer(Top) => Top.m_l < Top.m_r /\ Top.m_r <= GetNumTokens

(* C29: the run-time checks of the search never fire: NextType is never    *)
(* called with Count, every ScopedMarkTokens is built with l <= r <= the   *)
(* number of tokens, every index passed to MarkToken, GetToken,            *)
(* GetTokenType or IsTokenUsed is below the number of tokens, and          *)
(* HasParent is never called with an empty layer stack.                    *)
C29_ChecksNeverFire == []ChecksPass

(* NextType is about to be called with Building, the last type it takes,   *)
(* by a frame whose mark ends at the last token.                           *)
C29_Witness ==
  /\ InGo("push")
  /\ Top.type = Building
  /\ Top.m_r = GetNumTokens
  /\ Len(layers) >= 2

----------------------------------------------------------------------------
(* The shape of a beam key: tokenIds non-empty and strictly ascending,     *)
(* allTypes of the same length, and the key's type among allTypes.         *)
WellFormedKey(type, tokenIds, allTypes) ==
  /\ tokenIds # <<>>
  /\ \A n \in 1..(Len(tokenIds) - 1) : tokenIds[n] < tokenIds[n + 1]
  /\ Len(allTypes) = Len(tokenIds)
  /\ type \in Range(allTypes)

(* C30: in every BeamKey recorded by Go, tokenIds is non-empty and         *)
(* strictly ascending, allTypes has the length of tokenIds, allTypes[n] is *)
(* the type of position tokenIds[n] when the key is recorded, and the      *)
(* key's type occurs in allTypes.  Stated of the key each AddResult call   *)
(* of Go is about to record, and of the keys the beam holds at the end.    *)
C30_BeamKeyShape ==
  /\ InGo("add") =>
       /\ WellFormedKey(Top.type, Top.tokenIds, Top.allTypes)
       /\ \A n \in 1..Len(Top.tokenIds) :
            /\ Top.tokenIds[n] < GetNumTokens
            /\ Top.allTypes[n] = GetTokenType(Top.tokenIds[n])
  /\ pc = "done" =>
       \A n \in 1..Len(beam) :
          WellFormedKey(beam[n].key.type, beam[n].key.tokenIds,
                        beam[n].key.allTypes)

(* A Street key is recorded from two positions of two types while a third  *)
(* position carries the street synonym mark.                               *)
C30_Witness ==
  /\ InGo("add")
  /\ Top.streetSynonymMark # <<>>
  /\ Len(Top.tokenIds) >= 2
  /\ Top.allTypes[1] # Top.allTypes[Len(Top.allTypes)]

====
